---- MODULE Spec2Model ----
(***************************************************************************)
(* Bakery ordering backend (backend/app.py, backend/models.py,             *)
(* backend/db.py): the persistent tables, the invoice directory and the    *)
(* HTTP handlers, one action per statement group of a handler that talks   *)
(* to the database, so that concurrent requests interleave where the       *)
(* database lets them.                                                     *)
(*                                                                         *)
(* Each request runs in its own session (get_db), one transaction with     *)
(* autoflush and autocommit off (db.py).  A SELECT is a plain read of      *)
(* committed rows and takes no lock; the writes of a session reach the     *)
(* tables at its commit, whose UPDATEs hold their row locks from the flush *)
(* to the COMMIT; a handler that raises closes its session, which rolls    *)
(* back.  A read at a step sees the rows committed by then; a snapshot     *)
(* taken earlier in the request is the same run with the read moved up.    *)
(***************************************************************************)
EXTENDS Integers, Sequences, FiniteSets, TLC

\* ---------------------------------------------------------------- bounds
MaxInFlight == 2      \* request slots: requests handled at the same time
MaxOrders == 2        \* order ids the auto-increment key may hand out
MaxItems == 2         \* line items in one POST /orders payload
MaxQty == 2           \* largest qty of a line item (conint(gt=0): at least 1)
MaxStock == 2         \* largest Inventory.qty in the initial database
MaxProductId == 4     \* product ids a payload may name; only Products exist
MaxRequests == 4      \* requests received in one run

\* ACCESS_TOKEN_EXPIRE_MINUTES = 12 * 60
AccessTokenExpireMinutes == 720

Reqs == 1..MaxInFlight
OrderIds == 1..MaxOrders
Cafes == {1, 2}
Products == {1, 2}
ProductIds == 1..MaxProductId

\* the prices of the seeded catalog, in cents
Prices == {280, 320, 410, 450}

\* Product.price in cents, as seeded
SeedPrice == (1 :> 320) @@ (2 :> 410)

\* cafe_users rows by id: one user per cafe, the second an admin
CafeUsers == (1 :> [cafe_id |-> 1, login |-> "cafe1", is_admin |-> FALSE])
             @@ (2 :> [cafe_id |-> 2, login |-> "cafe2", is_admin |-> TRUE])

VARIABLES
    dbInv,      \* inventory table: product_id -> qty, for the products that have a row
    dbOrders,   \* orders table (committed rows): id -> [cafe, status]
    dbItems,    \* order_items table (committed rows): order_id -> sequence of items
    dbPrice,    \* products table: id -> price
    nextId,     \* auto-increment counter of orders.id
    invoices,   \* invoice directory: order id -> stored document
    req,        \* the requests in flight, one per slot
    resp,       \* the response the last step sent, NoResp if it sent none
    started,    \* number of requests received so far
    wanted,     \* history: order id -> the payload its createOrder was given
    inv0,       \* history: the inventory table of the initial database
    users,      \* cafe_users table: the ids of the rows it holds
    clock,      \* the server's time (datetime.utcnow()), in minutes
    issued,     \* history: the tokens login has handed out
    renderFailed \* history: the orders whose invoice failed to render at their
                \* confirmation and that no invoice request has reached since

vars == <<dbInv, dbOrders, dbItems, dbPrice, nextId, invoices, req, resp, started, wanted, inv0,
          users, clock, issued, renderFailed>>

\* ---------------------------------------------------------------- helpers
RECURSIVE SumQty(_, _)
\* sum of qty over the items for product p
SumQty(items, p) ==
    IF items = <<>> THEN 0
    ELSE (IF Head(items).product = p THEN Head(items).qty ELSE 0) + SumQty(Tail(items), p)

RECURSIVE Total(_)
\* sum of price * qty over the items
Total(items) ==
    IF items = <<>> THEN 0
    ELSE Head(items).price * Head(items).qty + Total(Tail(items))

SetMin(S) == CHOOSE m \in S : \A x \in S : m <= x

RECURSIVE Sorted(_)
\* Python's sorted() over a set of ints
Sorted(S) == IF S = {} THEN <<>> ELSE <<SetMin(S)>> \o Sorted(S \ {SetMin(S)})

ProductIdsOf(items) == {items[k].product : k \in 1..Len(items)}

ItemsOf(o) == IF o \in DOMAIN dbItems THEN dbItems[o] ELSE <<>>

\* select(Order).where(Order.id == order_id, Order.cafe_id == user.cafe_id)
\* .scalar_one_or_none(): <<>> when no row matches, <<row>> otherwise
\* (faulty variant: the cafe_id condition left out)
ScopedAnyCafe(orders, o, c) ==
    IF o \in DOMAIN orders THEN <<orders[o]>> ELSE <<>>
ScopedOrder(orders, o, c) ==
    IF o \in DOMAIN orders /\ orders[o].cafe = c THEN <<orders[o]>> ELSE <<>>

\* sorted(product_ids - set(products.keys()))
\* (faulty variant: every requested id listed)
MissingAll(ids, found) == Sorted(ids)
MissingIds(ids, found) == Sorted(ids \ found)

\* order.status != OrderStatus.pending
\* (faulty variants: no state check; only a confirmed order refused)
NotPendingNever(st) == FALSE
NotPendingConfirmedOnly(st) == st = "confirmed"
NotPending(st) == st # "pending"

\* db.flush() of the new Order inside the open transaction (autocommit=False):
\* the INSERT is invisible to the other sessions until the commit
\* (faulty variant: the flushed row is visible at once)
OrdersAfterFlushAutocommit(orders, o, row) == (o :> row) @@ orders
OrdersAfterFlush(orders, o, row) == orders

\* inv.qty -= it.qty on the session's object (autoflush=False): the committed
\* inventory row is not touched before the commit
\* (faulty variant: every decrement written to the table as it is made)
InvAfterDecrementWriteThrough(inv, p, v) == (p :> v) @@ inv
InvAfterDecrement(inv, p, v) == inv

\* the UPDATE the unit of work emits at commit: SET qty = <the object's value>
\* (faulty variant: SET qty = qty - <what the session took>)
FlushedQtyRelative(cur, loaded, now) == cur - (loaded - now)
FlushedQty(cur, loaded, now) == now

\* select(Inventory).where(product_id == p).scalar_one_or_none() in a session
\* that holds the objects sess: a row the session already loaded comes back as
\* the session's object, changes included
\* (faulty variant: every load takes the committed row)
LoadInventoryFresh(sess, inv, p) == [loaded |-> inv[p], qty |-> inv[p]]
LoadInventory(sess, inv, p) ==
    IF p \in DOMAIN sess THEN sess[p] ELSE [loaded |-> inv[p], qty |-> inv[p]]

\* OrderItem(..., price=products[it.product_id].price): the price of the
\* product as create_order loaded it
\* (faulty variant: the line total stored as the price)
ItemPriceLineTotal(products, it) == products[it.product] * it.qty
ItemPrice(products, it) == products[it.product]

\* where confirm_order goes after the loop over the items: order.status =
\* confirmed and db.commit(), the invoice after them
\* (faulty variant: the invoice generated before the commit)
AfterLoopInvoiceFirst == "invoice"
AfterLoop == "flush"

\* the invoice document generate_invoice_pdf draws
Render(st, items) == [status |-> st, total |-> Total(items)]

\* payloads of POST /orders: OrderCreateIn.items
Items == [product : ProductIds, qty : 1..MaxQty]
Payloads == UNION {[1..n -> Items] : n \in 0..MaxItems}

\* a request slot: the handler's position and its session
Idle == [kind |-> "idle", pc |-> "idle", cafe |-> 0, oid |-> 0, items |-> <<>>,
         i |-> 0, sess |-> <<>>, status |-> "", owner |-> 0, locks |-> {}, pre |-> <<>>]

Free(r) == req[r].pc = "idle"

\* a response, with the request it answers (kind, cafe, oid, arg), the
\* database as the request found it (pre) and what became of the call of
\* generate_invoice_pdf the handler made (gen: "none" when it made no call)
NoResp == [kind |-> "none", cafe |-> 0, oid |-> 0, arg |-> <<>>, result |-> "",
           missing |-> <<>>, bad |-> 0, data |-> <<>>, doc |-> <<>>, pre |-> <<>>,
           gen |-> "none", token |-> <<>>]

\* the response of the handler in slot r
Answer(r, res) == [NoResp EXCEPT !.kind = req[r].kind, !.cafe = req[r].cafe,
                                 !.oid = req[r].oid, !.result = res, !.pre = req[r].pre,
                                 !.arg = IF req[r].kind = "create" THEN req[r].items ELSE <<>>]

\* ---------------------------------------------------------------- Init
\* inventory tables: every product stocked, or product 2 without a row
Stocked == [Products -> 0..MaxStock]
Unstocked == [Products \ {2} -> 0..MaxStock]

\* orders tables the database may start from: none, or one canceled order
NoOrders == <<>>
OneCanceled == (1 :> [cafe |-> 1, status |-> "canceled"])
CanceledItems == <<[product |-> 1, qty |-> 1, price |-> SeedPrice[1]]>>

InitFrom(inventories, tables) ==
    /\ dbInv \in inventories
    /\ dbOrders \in tables
    /\ dbItems = [o \in DOMAIN dbOrders |-> CanceledItems]
    /\ dbPrice = SeedPrice
    /\ nextId = Cardinality(DOMAIN dbOrders) + 1
    /\ invoices = <<>>
    /\ req = [r \in Reqs |-> Idle]
    /\ resp = NoResp
    /\ started = 0
    /\ wanted = [o \in DOMAIN dbOrders |-> <<[product |-> 1, qty |-> 1]>>]
    /\ inv0 = dbInv
    /\ users = DOMAIN CafeUsers
    /\ clock = 0
    /\ issued = {}
    /\ renderFailed = {}

Init == InitFrom(Stocked, {NoOrders, OneCanceled})

\* ---------------------------------------------------------------- requests
\* a request arrives at slot r; alone = the server handles one request at a time
Accept(r, alone) ==
    /\ Free(r)
    /\ alone => \A q \in Reqs : Free(q)
    /\ started < MaxRequests
    /\ started' = started + 1
    /\ UNCHANGED <<inv0, users, clock>>

\* history: the database as an arriving request finds it, kept for the runs
\* that handle one request at a time, where it is what the whole request sees
Before(alone) ==
    IF alone THEN [inv |-> dbInv, orders |-> dbOrders, items |-> dbItems, docs |-> invoices,
                   price |-> dbPrice]
    ELSE <<>>

\* the handler in slot r moves on without answering
Go(r, rec) == req' = [req EXCEPT ![r] = rec] /\ resp' = NoResp

\* the handler in slot r answers: the request is over and its session closed
Reply(r, answer) == req' = [req EXCEPT ![r] = Idle] /\ resp' = answer

\* ---------------------------------------------------------------- POST /orders
BeginCreate(r, c, its, alone) ==
    /\ Accept(r, alone)
    /\ Go(r, [Idle EXCEPT !.kind = "create", !.pc = "validate", !.cafe = c, !.items = its,
                          !.pre = Before(alone)])
    /\ UNCHANGED <<dbInv, dbOrders, dbItems, dbPrice, nextId, invoices, wanted, issued, renderFailed>>

\* refuse an empty payload and unknown product ids; load the products
CreateValidate(r) ==
    /\ req[r].kind = "create" /\ req[r].pc = "validate"
    /\ LET its == req[r].items
           ids == ProductIdsOf(its)
           products == [p \in ids \cap DOMAIN dbPrice |-> dbPrice[p]]
       IN  IF its = <<>> THEN Reply(r, Answer(r, "EmptyOrder"))
           ELSE IF Cardinality(DOMAIN products) # Cardinality(ids)
           THEN Reply(r, [Answer(r, "UnknownProduct") EXCEPT
                              !.missing = MissingIds(ids, DOMAIN products)])
           ELSE Go(r, [req[r] EXCEPT !.pc = "flush", !.sess = products])
    /\ UNCHANGED <<dbInv, dbOrders, dbItems, dbPrice, nextId, invoices, started, wanted, inv0, users, clock, issued, renderFailed>>

\* db.add(order); db.flush(): the INSERT draws the order's id
CreateFlush(r) ==
    /\ req[r].kind = "create" /\ req[r].pc = "flush"
    /\ nextId <= MaxOrders
    /\ nextId' = nextId + 1
    /\ dbOrders' = OrdersAfterFlush(dbOrders, nextId, [cafe |-> req[r].cafe, status |-> "pending"])
    /\ wanted' = (nextId :> req[r].items) @@ wanted
    /\ Go(r, [req[r] EXCEPT !.pc = "commit", !.oid = nextId])
    /\ UNCHANGED <<dbInv, dbItems, dbPrice, invoices, started, inv0, users, clock, issued, renderFailed>>

\* the items with the price of the loaded products, db.commit(), the response
CreateCommit(r) ==
    /\ req[r].kind = "create" /\ req[r].pc = "commit"
    /\ LET o == req[r].oid
           its == req[r].items
           rows == [k \in 1..Len(its) |->
                       [product |-> its[k].product, qty |-> its[k].qty,
                        price |-> ItemPrice(req[r].sess, its[k])]]
           row == [cafe |-> req[r].cafe, status |-> "pending"]
       IN  /\ dbOrders' = (o :> row) @@ dbOrders
           /\ dbItems' = (o :> rows) @@ dbItems
           /\ Reply(r, [Answer(r, "ok") EXCEPT
                  !.data = <<[id |-> o, cafe |-> row.cafe, status |-> row.status,
                              items |-> rows]>>])
    /\ UNCHANGED <<dbInv, dbPrice, nextId, invoices, started, wanted, inv0, users, clock, issued, renderFailed>>

\* ---------------------------------------------------------------- POST /orders/{id}/confirm
BeginConfirm(r, c, o, alone) ==
    /\ Accept(r, alone)
    /\ Go(r, [Idle EXCEPT !.kind = "confirm", !.pc = "load", !.cafe = c, !.oid = o,
                          !.pre = Before(alone)])
    /\ UNCHANGED <<dbInv, dbOrders, dbItems, dbPrice, nextId, invoices, wanted, issued, renderFailed>>

\* load the order scoped to the caller's cafe; refuse a non-pending one
ConfirmLoad(r) ==
    /\ req[r].kind = "confirm" /\ req[r].pc = "load"
    /\ LET order == ScopedOrder(dbOrders, req[r].oid, req[r].cafe)
       IN  IF order = <<>> THEN Reply(r, Answer(r, "NotFound"))
           ELSE IF NotPending(order[1].status) THEN Reply(r, Answer(r, "InvalidState"))
           ELSE Go(r, [req[r] EXCEPT !.pc = "items", !.status = order[1].status])
    /\ UNCHANGED <<dbInv, dbOrders, dbItems, dbPrice, nextId, invoices, started, wanted, inv0, users, clock, issued, renderFailed>>

\* order.items: the lazy load of the line items
ConfirmItems(r) ==
    /\ req[r].kind = "confirm" /\ req[r].pc = "items"
    /\ Go(r, [req[r] EXCEPT !.items = ItemsOf(req[r].oid), !.i = 1,
                  !.pc = IF ItemsOf(req[r].oid) = <<>> THEN AfterLoop ELSE "check"])
    /\ UNCHANGED <<dbInv, dbOrders, dbItems, dbPrice, nextId, invoices, started, wanted, inv0, users, clock, issued, renderFailed>>

\* one turn of the loop: read the inventory row of item i, check it, decrement
\* the session's object.  A row this session already loaded keeps the
\* session's value (identity map).
ConfirmCheck(r) ==
    /\ req[r].kind = "confirm" /\ req[r].pc = "check"
    /\ LET it == req[r].items[req[r].i]
           p == it.product
           sess == req[r].sess
           hasRow == p \in DOMAIN sess \/ p \in DOMAIN dbInv
           inv == LoadInventory(sess, dbInv, p)
       IN  IF ~hasRow \/ inv.qty < it.qty
           THEN /\ Reply(r, [Answer(r, "InsufficientStock") EXCEPT !.bad = p])
                /\ dbInv' = dbInv
           ELSE /\ Go(r, [req[r] EXCEPT
                      !.sess = (p :> [inv EXCEPT !.qty = inv.qty - it.qty]) @@ sess,
                      !.i = req[r].i + 1,
                      !.pc = IF req[r].i = Len(req[r].items) THEN AfterLoop ELSE "check"])
                /\ dbInv' = InvAfterDecrement(dbInv, p, inv.qty - it.qty)
    /\ UNCHANGED <<dbOrders, dbItems, dbPrice, nextId, invoices, started, wanted, inv0, users, clock, issued, renderFailed>>

\* the rows the commit of slot r updates
RowsOf(r) == {<<"inventory", p>> : p \in DOMAIN req[r].sess} \cup {<<"orders", req[r].oid>>}

\* order.status = confirmed; db.commit(), first half: the flush sends the
\* UPDATEs, each taking the lock of its row until the transaction ends
ConfirmFlush(r) ==
    /\ req[r].kind = "confirm" /\ req[r].pc = "flush"
    /\ \A q \in Reqs \ {r} : req[q].locks \cap RowsOf(r) = {}
    /\ Go(r, [req[r] EXCEPT !.locks = RowsOf(r), !.pc = "commit"])
    /\ UNCHANGED <<dbInv, dbOrders, dbItems, dbPrice, nextId, invoices, started, wanted, inv0, users, clock, issued, renderFailed>>

\* db.commit(), second half: the COMMIT publishes the rows and frees the locks
ConfirmCommit(r) ==
    /\ req[r].kind = "confirm" /\ req[r].pc = "commit"
    /\ LET sess == req[r].sess
       IN  dbInv' = [p \in DOMAIN dbInv |->
                        IF p \in DOMAIN sess
                        THEN FlushedQty(dbInv[p], sess[p].loaded, sess[p].qty)
                        ELSE dbInv[p]]
    /\ dbOrders' = [dbOrders EXCEPT ![req[r].oid].status = "confirmed"]
    /\ Go(r, [req[r] EXCEPT !.locks = {}, !.pc = "invoice", !.status = "confirmed",
                            !.sess = <<>>, !.items = <<>>, !.i = 0])
    /\ UNCHANGED <<dbItems, dbPrice, nextId, invoices, started, wanted, inv0, users, clock, issued, renderFailed>>

\* the answer of confirm_order after generate_invoice_pdf inside try/except:
\* an exception of the generation is printed and the request goes on
\* (faulty variant: the exception reaches the client)
ConfirmResultRaising(rendered) == IF rendered THEN "ok" ELSE "RenderError"
ConfirmResult(rendered) == "ok"

\* generate_invoice_pdf inside try/except, then the response
ConfirmInvoice(r, rendered) ==
    /\ req[r].kind = "confirm" /\ req[r].pc = "invoice"
    /\ invoices' = IF rendered
                   THEN (req[r].oid :> Render(dbOrders[req[r].oid].status, ItemsOf(req[r].oid)))
                        @@ invoices
                   ELSE invoices
    /\ renderFailed' = IF rendered THEN renderFailed \ {req[r].oid}
                       ELSE renderFailed \cup {req[r].oid}
    /\ Reply(r, [Answer(r, ConfirmResult(rendered)) EXCEPT
           !.data = <<[id |-> req[r].oid, cafe |-> req[r].cafe, status |-> req[r].status,
                       items |-> <<>>]>>,
           !.gen = IF rendered THEN "ok" ELSE "failed"])
    /\ UNCHANGED <<dbInv, dbOrders, dbItems, dbPrice, nextId, started, wanted, inv0, users, clock, issued>>

\* ---------------------------------------------------------------- GET /orders/{id}
BeginGet(r, c, o, alone) ==
    /\ Accept(r, alone)
    /\ Go(r, [Idle EXCEPT !.kind = "get", !.pc = "load", !.cafe = c, !.oid = o,
                          !.pre = Before(alone)])
    /\ UNCHANGED <<dbInv, dbOrders, dbItems, dbPrice, nextId, invoices, wanted, issued, renderFailed>>

GetLoad(r) ==
    /\ req[r].kind = "get" /\ req[r].pc = "load"
    /\ LET order == ScopedOrder(dbOrders, req[r].oid, req[r].cafe)
       IN  IF order = <<>> THEN Reply(r, Answer(r, "NotFound"))
           ELSE Go(r, [req[r] EXCEPT !.pc = "items", !.status = order[1].status,
                                     !.owner = order[1].cafe])
    /\ UNCHANGED <<dbInv, dbOrders, dbItems, dbPrice, nextId, invoices, started, wanted, inv0, users, clock, issued, renderFailed>>

\* order.items, lazily loaded, then the response
GetItems(r) ==
    /\ req[r].kind = "get" /\ req[r].pc = "items"
    /\ Reply(r, [Answer(r, "ok") EXCEPT
           !.data = <<[id |-> req[r].oid, cafe |-> req[r].owner, status |-> req[r].status,
                       items |-> ItemsOf(req[r].oid)]>>])
    /\ UNCHANGED <<dbInv, dbOrders, dbItems, dbPrice, nextId, invoices, started, wanted, inv0, users, clock, issued, renderFailed>>

\* ---------------------------------------------------------------- GET /orders/{id}/invoice
BeginInvoice(r, c, o, alone) ==
    /\ Accept(r, alone)
    /\ Go(r, [Idle EXCEPT !.kind = "invoice", !.pc = "load", !.cafe = c, !.oid = o,
                          !.pre = Before(alone)])
    /\ UNCHANGED <<dbInv, dbOrders, dbItems, dbPrice, nextId, invoices, wanted, issued, renderFailed>>

InvoiceLoad(r) ==
    /\ req[r].kind = "invoice" /\ req[r].pc = "load"
    /\ LET order == ScopedOrder(dbOrders, req[r].oid, req[r].cafe)
       IN  IF order = <<>> THEN Reply(r, Answer(r, "NotFound"))
           ELSE Go(r, [req[r] EXCEPT !.pc = "fetch", !.status = order[1].status])
    /\ UNCHANGED <<dbInv, dbOrders, dbItems, dbPrice, nextId, invoices, started, wanted, inv0, users, clock, issued, renderFailed>>

\* generate on demand when no file is stored, then send the file; the order
\* object generate_invoice_pdf gets is the one this session already loaded
InvoiceFetch(r, rendered) ==
    /\ req[r].kind = "invoice" /\ req[r].pc = "fetch"
    /\ LET o == req[r].oid
           present == o \in DOMAIN invoices
       IN  /\ IF present \/ rendered
              THEN /\ invoices' = IF present THEN invoices
                                  ELSE (o :> Render(req[r].status, ItemsOf(o))) @@ invoices
                   /\ Reply(r, [Answer(r, "ok") EXCEPT
                          !.doc = <<invoices'[o]>>,
                          !.gen = IF present THEN "none" ELSE "ok"])
              ELSE /\ invoices' = invoices
                   /\ Reply(r, [Answer(r, "RenderError") EXCEPT !.gen = "failed"])
           /\ renderFailed' = renderFailed \ {o}
    /\ UNCHANGED <<dbInv, dbOrders, dbItems, dbPrice, nextId, started, wanted, inv0, users, clock, issued>>

\* ---------------------------------------------------------------- authentication
\* create_access_token: the expiry claim of a token issued at time now
\* (faulty variant: the minutes taken for hours)
TokenExpiryHours(now) == now + AccessTokenExpireMinutes * 60
TokenExpiry(now) == now + AccessTokenExpireMinutes

\* jwt.encode(to_encode, SECRET_KEY): the claims, signed with the key
Encode(claims, key) == [sub |-> claims.sub, exp |-> claims.exp, key |-> key]

\* jwt.decode(token, SECRET_KEY) at time now: the signature, then the expiry.
\* At the very minute of the expiry the verdict is the library's (atExpiry:
\* whether it counts that instant as expired).
Decode(token, key, now, atExpiry) ==
    IF token.key # key THEN [error |-> "TokenInvalid", claims |-> <<>>]
    ELSE IF token.exp < now \/ (token.exp = now /\ atExpiry)
    THEN [error |-> "TokenExpired", claims |-> <<>>]
    ELSE [error |-> "", claims |-> <<[sub |-> token.sub]>>]

\* the tokens a client may present: the issued ones and their forgeries,
\* signed with another key
Presentable == {t.token : t \in issued} \cup {[t.token EXCEPT !.key = "forged"] : t \in issued}

\* POST /auth/login with the login of user u and a right or wrong password
Login(r, u, passwordOk) ==
    /\ Accept(r, TRUE)
    /\ IF u \notin users \/ ~passwordOk
       THEN /\ resp' = [NoResp EXCEPT !.kind = "login", !.result = "InvalidCredentials"]
            /\ issued' = issued
       ELSE LET token == Encode([sub |-> u, exp |-> TokenExpiry(clock)], "server")
            IN  /\ resp' = [NoResp EXCEPT !.kind = "login", !.result = "ok",
                                          !.token = <<token>>]
                /\ issued' = issued \cup {[token |-> token, iat |-> clock]}
    /\ UNCHANGED <<dbInv, dbOrders, dbItems, dbPrice, nextId, invoices, req, wanted,
                   renderFailed>>

\* get_current_user on the Authorization header hdr (<<>>: no bearer token)
CurrentUser(hdr, now, atExpiry) ==
    IF hdr = <<>> THEN [error |-> "MissingToken", user |-> <<>>]
    ELSE LET payload == Decode(hdr[1], "server", now, atExpiry)
         IN  IF payload.error # "" THEN [error |-> payload.error, user |-> <<>>]
             ELSE IF payload.claims[1].sub = 0
             THEN [error |-> "InvalidPayload", user |-> <<>>]
             ELSE IF payload.claims[1].sub \notin users
             THEN [error |-> "UserNotFound", user |-> <<>>]
             ELSE [error |-> "",
                   user |-> <<[id |-> payload.claims[1].sub,
                               cafe_id |-> CafeUsers[payload.claims[1].sub].cafe_id,
                               login |-> CafeUsers[payload.claims[1].sub].login,
                               is_admin |-> CafeUsers[payload.claims[1].sub].is_admin]>>]

\* GET /auth/me
WhoAmI(r, hdr, atExpiry) ==
    /\ Accept(r, TRUE)
    /\ LET me == CurrentUser(hdr, clock, atExpiry)
       IN  resp' = [NoResp EXCEPT !.kind = "me", !.token = hdr,
                                  !.result = IF me.error = "" THEN "ok" ELSE me.error,
                                  !.data = me.user]
    /\ UNCHANGED <<dbInv, dbOrders, dbItems, dbPrice, nextId, invoices, req, wanted,
                   issued, renderFailed>>

\* the steps of time the runs take: a minute, just short of the life of a
\* token, just over it
Jumps == {1, AccessTokenExpireMinutes - 1, AccessTokenExpireMinutes + 1}

\* time passes between two requests
Tick(d) ==
    /\ \A q \in Reqs : Free(q)
    /\ started < MaxRequests
    /\ started' = started + 1
    /\ clock' = clock + d
    /\ resp' = NoResp
    /\ UNCHANGED <<dbInv, dbOrders, dbItems, dbPrice, nextId, invoices, req, wanted, inv0,
                   users, issued, renderFailed>>

\* the row of user u leaves cafe_users (provisioning, outside the API)
DeleteUser(u) ==
    /\ \A q \in Reqs : Free(q)
    /\ started < MaxRequests
    /\ started' = started + 1
    /\ u \in users
    /\ users' = users \ {u}
    /\ resp' = NoResp
    /\ UNCHANGED <<dbInv, dbOrders, dbItems, dbPrice, nextId, invoices, req, wanted, inv0,
                   clock, issued, renderFailed>>

\* ---------------------------------------------------------------- GET /products
\* select(Product..., Inventory.qty).join(Inventory, isouter=True)
\* .order_by(Product.id), each row with int(qty or 0): Inventory.product_id is
\* unique, so a product joins with one row or with none
\* (faulty variant: an inner join)
ProductRowsInnerJoin(price, inv) ==
    LET ids == Sorted(DOMAIN price \cap DOMAIN inv)
    IN  [k \in 1..Len(ids) |-> [id |-> ids[k], price |-> price[ids[k]], stock |-> inv[ids[k]]]]
ProductRows(price, inv) ==
    LET ids == Sorted(DOMAIN price)
    IN  [k \in 1..Len(ids) |->
            [id |-> ids[k], price |-> price[ids[k]],
             stock |-> IF ids[k] \in DOMAIN inv THEN inv[ids[k]] ELSE 0]]

ListProducts(r) ==
    /\ Accept(r, TRUE)
    /\ resp' = [NoResp EXCEPT !.kind = "products", !.result = "ok",
                              !.data = ProductRows(dbPrice, dbInv)]
    /\ UNCHANGED <<dbInv, dbOrders, dbItems, dbPrice, nextId, invoices, req, wanted,
                   issued, renderFailed>>

\* ---------------------------------------------------------------- GET /orders/my
\* the GET routes in the order app.py declares them; a segment in braces is
\* a path parameter
GetRoutes ==
    << [path |-> <<>>, handler |-> "root"],
       [path |-> <<"auth", "me">>, handler |-> "whoami"],
       [path |-> <<"products">>, handler |-> "list_products"],
       [path |-> <<"orders", "{order_id}">>, handler |-> "get_order"],
       [path |-> <<"orders", "{order_id}", "invoice">>, handler |-> "get_invoice"],
       [path |-> <<"orders", "my">>, handler |-> "list_my_orders"] >>

\* a route matches a path of as many segments, each equal to the route's or
\* standing for a path parameter (which takes any segment)
Matches(route, path) ==
    /\ Len(route) = Len(path)
    /\ \A k \in 1..Len(path) : route[k] = path[k] \/ route[k] = "{order_id}"

\* the router hands the request to the first declared route that matches
Dispatch(path) ==
    LET hits == {k \in 1..Len(GetRoutes) : Matches(GetRoutes[k].path, path)}
    IN  IF hits = {} THEN "none" ELSE GetRoutes[SetMin(hits)].handler

\* order_id: int, the conversion of a path segment: <<n>>, or <<>> when the
\* segment is no integer
ParseInt(seg) ==
    LET digits == ("1" :> 1) @@ ("2" :> 2)
    IN  IF seg \in DOMAIN digits THEN <<digits[seg]>> ELSE <<>>

RECURSIVE Reverse(_)
Reverse(q) == IF q = <<>> THEN <<>> ELSE Reverse(Tail(q)) \o <<Head(q)>>

\* the body of list_my_orders: the orders of cafe c, newest id first, the
\* page cut out by offset and limit, each with the total of its items
ListPage(orders, items, c, page, size) ==
    LET desc == Reverse(Sorted({o \in DOMAIN orders : orders[o].cafe = c}))
        offset == (page - 1) * size
        last == IF offset + size < Len(desc) THEN offset + size ELSE Len(desc)
        rows == SubSeq(desc, offset + 1, last)
    IN  [k \in 1..Len(rows) |->
            [id |-> rows[k], status |-> orders[rows[k]].status,
             total |-> Total(IF rows[k] \in DOMAIN items THEN items[rows[k]] ELSE <<>>)]]

\* GET /orders/my?page=&page_size= by a user of cafe c: the handler the
\* router picks for the path runs
GetOrdersMy(r, c, page, size) ==
    /\ Accept(r, TRUE)
    /\ LET handler == Dispatch(<<"orders", "my">>)
           answer == [NoResp EXCEPT !.kind = "list", !.cafe = c,
                                    !.arg = <<page, size>>, !.pre = Before(TRUE)]
       IN  resp' = IF handler = "list_my_orders"
                   THEN [answer EXCEPT !.result = "ok",
                                       !.data = ListPage(dbOrders, dbItems, c, page, size)]
                   ELSE IF handler = "get_order" /\ ParseInt("my") = <<>>
                   THEN [answer EXCEPT !.result = "Unprocessable"]
                   ELSE [answer EXCEPT !.result = "NotFound"]
    /\ UNCHANGED <<dbInv, dbOrders, dbItems, dbPrice, nextId, invoices, req, wanted,
                   issued, renderFailed>>

\* ---------------------------------------------------------------- catalog upkeep
\* the bakery rewrites products.price of product p (no endpoint does; the
\* table is maintained outside the API), between two requests
SetPrice(p, v) ==
    /\ \A q \in Reqs : Free(q)
    /\ started < MaxRequests
    /\ started' = started + 1
    /\ v # dbPrice[p]
    /\ dbPrice' = [dbPrice EXCEPT ![p] = v]
    /\ resp' = NoResp
    /\ UNCHANGED <<dbInv, dbOrders, dbItems, nextId, invoices, req, wanted, inv0,
                   users, clock, issued, renderFailed>>

\* ---------------------------------------------------------------- specifications
\* payloads whose products all exist
ValidPayloads == {its \in Payloads : its # <<>> /\ ProductIdsOf(its) \subseteq Products}
\* payloads of one line
OneLine == {its \in ValidPayloads : Len(its) = 1}

Create(r) == CreateValidate(r) \/ CreateFlush(r) \/ CreateCommit(r)

Confirm(r) ==
    \/ ConfirmLoad(r)
    \/ ConfirmItems(r)
    \/ ConfirmCheck(r)
    \/ ConfirmFlush(r)
    \/ ConfirmCommit(r)
    \/ \E rendered \in BOOLEAN : ConfirmInvoice(r, rendered)

Get(r) == GetLoad(r) \/ GetItems(r)

Invoice(r) == InvoiceLoad(r) \/ \E rendered \in BOOLEAN : InvoiceFetch(r, rendered)

\* one cafe places one-line orders and confirms them, requests overlapping
Next ==
    \E r \in Reqs :
        \/ \E its \in OneLine : BeginCreate(r, 1, its, FALSE)
        \/ \E o \in OrderIds : BeginConfirm(r, 1, o, FALSE)
        \/ Create(r)
        \/ Confirm(r)

Spec == Init /\ [][Next]_vars

\* one cafe, one request at a time: any valid order, confirmed and invoiced
NextSeq ==
    \E r \in Reqs :
        \/ started < MaxRequests - 1 /\ \E its \in ValidPayloads : BeginCreate(r, 1, its, TRUE)
        \/ started < MaxRequests - 1 /\ \E o \in OrderIds : BeginConfirm(r, 1, o, TRUE)
        \/ started < MaxRequests - 1 /\ \E o \in OrderIds : BeginInvoice(r, 1, o, TRUE)
        \/ Create(r)
        \/ Confirm(r)
        \/ Invoice(r)

SpecSeq == InitFrom(Stocked \cup Unstocked, {NoOrders}) /\ [][NextSeq]_vars

\* two cafes, one request at a time, each reaching for any order id
NextTenant ==
    \E r \in Reqs :
        \/ \E c \in Cafes : BeginCreate(r, c, <<[product |-> 1, qty |-> 1]>>, TRUE)
        \/ \E c \in Cafes, o \in OrderIds : BeginConfirm(r, c, o, TRUE)
        \/ \E c \in Cafes, o \in OrderIds : BeginGet(r, c, o, TRUE)
        \/ \E c \in Cafes, o \in OrderIds : BeginInvoice(r, c, o, TRUE)
        \/ Create(r)
        \/ Confirm(r)
        \/ Get(r)
        \/ Invoice(r)

SpecTenant == InitFrom({[p \in Products |-> MaxStock]}, {NoOrders, OneCanceled}) /\ [][NextTenant]_vars

\* any payload, a reader overlapping the writer
NextCreate ==
    \E r \in Reqs :
        \/ started < MaxRequests - 2 /\ \E its \in Payloads : BeginCreate(r, 1, its, FALSE)
        \/ started < MaxRequests - 2 /\ \E o \in OrderIds : BeginGet(r, 1, o, FALSE)
        \/ Create(r)
        \/ Get(r)

SpecCreate == InitFrom({[p \in Products |-> MaxStock]}, {NoOrders}) /\ [][NextCreate]_vars

\* one cafe, one request at a time: one-line orders, their invoices asked for
\* before and after the confirmation, the catalog repriced in between
NextInvoice ==
    \E r \in Reqs :
        \/ \E its \in OneLine : BeginCreate(r, 1, its, TRUE)
        \/ \E o \in OrderIds : BeginConfirm(r, 1, o, TRUE)
        \/ \E o \in OrderIds : BeginInvoice(r, 1, o, TRUE)
        \/ \E p \in Products, v \in Prices : SetPrice(p, v)
        \/ Create(r)
        \/ Confirm(r)
        \/ Invoice(r)

SpecInvoice == InitFrom({[p \in Products |-> MaxStock]}, {NoOrders}) /\ [][NextInvoice]_vars

\* two cafes confirming the orders of cafe 1, one request at a time: any
\* valid order, any stock
NextGuard ==
    \E r \in Reqs :
        \/ started < MaxRequests - 1 /\ \E its \in ValidPayloads : BeginCreate(r, 1, its, TRUE)
        \/ started < MaxRequests - 1 /\ \E c \in Cafes, o \in OrderIds : BeginConfirm(r, c, o, TRUE)
        \/ Create(r)
        \/ Confirm(r)

SpecGuard == InitFrom(Stocked, {NoOrders, OneCanceled}) /\ [][NextGuard]_vars

\* logins and token checks while time passes and users are removed
NextAuth ==
    \E r \in Reqs :
        \/ \E u \in DOMAIN CafeUsers, passwordOk \in BOOLEAN : Login(r, u, passwordOk)
        \/ \E hdr \in {<<>>} \cup {<<t>> : t \in Presentable}, atExpiry \in BOOLEAN :
               WhoAmI(r, hdr, atExpiry)
        \/ \E d \in Jumps : Tick(d)
        \/ \E u \in DOMAIN CafeUsers : DeleteUser(u)

SpecAuth == InitFrom({[p \in Products |-> MaxStock]}, {NoOrders}) /\ [][NextAuth]_vars

\* payloads of at most one line, refused ones among them
ShortPayloads == {its \in Payloads : Len(its) <= 1}

\* every endpoint, one request at a time, by the user of cafe 1
NextApi ==
    \E r \in Reqs :
        \/ \E its \in ShortPayloads : BeginCreate(r, 1, its, TRUE)
        \/ \E o \in OrderIds : BeginConfirm(r, 1, o, TRUE)
        \/ \E o \in OrderIds : BeginGet(r, 1, o, TRUE)
        \/ \E o \in OrderIds : BeginInvoice(r, 1, o, TRUE)
        \/ \E page \in 1..MaxOrders, size \in 1..MaxOrders : GetOrdersMy(r, 1, page, size)
        \/ ListProducts(r)
        \/ \E passwordOk \in BOOLEAN : Login(r, 1, passwordOk)
        \/ \E hdr \in {<<>>} \cup {<<t>> : t \in Presentable} : WhoAmI(r, hdr, FALSE)
        \/ Create(r)
        \/ Confirm(r)
        \/ Get(r)
        \/ Invoice(r)

SpecApi == InitFrom({[p \in Products |-> MaxStock]} \cup Unstocked, {NoOrders, OneCanceled})
           /\ [][NextApi]_vars

\* ---------------------------------------------------------------- properties
Confirmed(o) == o \in DOMAIN dbOrders /\ dbOrders[o].status = "confirmed"

RECURSIVE ConfirmedQty(_, _)
\* qty of product p over the line items of the confirmed orders among S
ConfirmedQty(S, p) ==
    IF S = {} THEN 0
    ELSE LET o == CHOOSE x \in S : TRUE
         IN  (IF Confirmed(o) THEN SumQty(ItemsOf(o), p) ELSE 0) + ConfirmedQty(S \ {o}, p)

\* C1: of the confirmations of pending orders that each ask qty q of product
\* p, started from stock S, at most floor(S / q) end with the order confirmed.
ConfirmedAtMostFloor ==
    \A p \in DOMAIN inv0, q \in 1..MaxQty :
        Cardinality({o \in DOMAIN wanted :
                        Confirmed(o) /\ wanted[o] = <<[product |-> p, qty |-> q]>>})
            <= inv0[p] \div q

\* C2: Inventory.qty of every product is >= 0 in every reachable state.
InventoryNonNegative == \A p \in DOMAIN dbInv : dbInv[p] >= 0

\* confirmations that overlapped on a product took more of it than there was
Oversold == \E p \in DOMAIN dbInv : ConfirmedQty(OrderIds, p) > inv0[p]

\* some line of the order has no inventory row or asks more than is there
Short(inv, its) ==
    \E k \in 1..Len(its) : its[k].product \notin DOMAIN inv \/ its[k].qty > inv[its[k].product]

\* C3: confirm of a pending order with a line that has no inventory row or
\* asks more than the available qty answers InsufficientStock, leaves every
\* Inventory.qty as it was before the call and leaves the order pending.
InsufficientStockKeepsAll ==
    (/\ resp.kind = "confirm"
     /\ resp.oid \in DOMAIN resp.pre.orders
     /\ resp.pre.orders[resp.oid].cafe = resp.cafe
     /\ resp.pre.orders[resp.oid].status = "pending"
     /\ Short(resp.pre.inv, resp.pre.items[resp.oid]))
    => (/\ resp.result = "InsufficientStock"
        /\ dbInv = resp.pre.inv
        /\ dbOrders[resp.oid].status = "pending")

\* the second line fails after the first line was checked and decremented
FailedAfterDecrement ==
    /\ resp.kind = "confirm" /\ resp.result = "InsufficientStock"
    /\ LET its == ItemsOf(resp.oid)
       IN  /\ Len(its) = 2
           /\ its[1].product # its[2].product
           /\ its[1].product \in DOMAIN resp.pre.inv
           /\ its[1].qty <= resp.pre.inv[its[1].product]
           /\ resp.bad = its[2].product

\* C4: confirm of an order of the caller's cafe whose status is not pending
\* answers InvalidState and changes no inventory quantity and no order.
NonPendingRefused ==
    [][\A r \in Reqs :
          (/\ req[r].kind = "confirm" /\ req[r].pc = "load"
           /\ req'[r] # req[r]
           /\ req[r].oid \in DOMAIN dbOrders
           /\ dbOrders[req[r].oid].cafe = req[r].cafe
           /\ dbOrders[req[r].oid].status # "pending")
          => (/\ resp'.kind = "confirm" /\ resp'.oid = req[r].oid
              /\ resp'.result = "InvalidState"
              /\ dbInv' = dbInv /\ dbOrders' = dbOrders)]_vars

\* a second confirm is refused after the first one took its stock
SecondConfirmRefused ==
    /\ resp.kind = "confirm" /\ resp.result = "InvalidState"
    /\ Confirmed(resp.oid)
    /\ dbInv # inv0

\* C5: an order's status changes only from pending, and only to confirmed or
\* canceled; no order is removed or returns to pending.
StatusOnlyLeavesPending ==
    [][\A o \in DOMAIN dbOrders :
          /\ o \in DOMAIN dbOrders'
          /\ dbOrders'[o].status # dbOrders[o].status
             => (/\ dbOrders[o].status = "pending"
                 /\ dbOrders'[o].status \in {"confirmed", "canceled"})]_vars

\* a confirmation is about to commit to an order that is already confirmed
RecommitConfirmed ==
    \E r \in Reqs : req[r].kind = "confirm" /\ req[r].pc = "commit" /\ Confirmed(req[r].oid)

\* C6: after a successful confirm with no other request in flight the order
\* is confirmed, every Inventory.qty is its value before the call minus the
\* qty of the order's lines for that product, and the invoice endpoint serves
\* the owning cafe: never NotFound, the stored document when there is one.
ConfirmEffect ==
    /\ (resp.kind = "confirm" /\ resp.result = "ok")
       => (/\ Confirmed(resp.oid)
           /\ dbOrders[resp.oid].cafe = resp.cafe
           /\ DOMAIN dbInv = DOMAIN resp.pre.inv
           /\ \A p \in DOMAIN dbInv :
                 dbInv[p] = resp.pre.inv[p] - SumQty(ItemsOf(resp.oid), p))
    /\ (/\ resp.kind = "invoice"
        /\ resp.oid \in DOMAIN resp.pre.orders
        /\ resp.pre.orders[resp.oid].cafe = resp.cafe
        /\ resp.pre.orders[resp.oid].status = "confirmed")
       => (/\ resp.result \in {"ok", "RenderError"}
           /\ resp.result = "ok"
              => (/\ resp.oid \in DOMAIN invoices
                  /\ resp.doc = <<invoices[resp.oid]>>
                  /\ resp.doc[1].total = Total(ItemsOf(resp.oid)))
           /\ resp.oid \in DOMAIN resp.pre.docs => resp.result = "ok")

\* an order of two products was confirmed
ConfirmedTwoProducts ==
    /\ resp.kind = "confirm" /\ resp.result = "ok"
    /\ Len(ItemsOf(resp.oid)) = 2
    /\ ItemsOf(resp.oid)[1].product # ItemsOf(resp.oid)[2].product
    /\ ItemsOf(resp.oid)[1].qty = 2

\* C7: getOrder by a caller of another cafe than the order's answers NotFound
\* and carries no data of the order, whatever the order's status.
GetOrderForeignNotFound ==
    (/\ resp.kind = "get"
     /\ resp.oid \in DOMAIN dbOrders
     /\ dbOrders[resp.oid].cafe # resp.cafe)
    => (resp.result = "NotFound" /\ resp.data = <<>>)

\* a confirmed order was asked for by the other cafe
ForeignGetOfConfirmed ==
    /\ resp.kind = "get" /\ resp.result = "NotFound"
    /\ Confirmed(resp.oid)
    /\ dbOrders[resp.oid].cafe # resp.cafe

\* C8: confirm and invoice fetch on an order of another cafe answer NotFound
\* and leave the orders, the inventory and the stored invoices as they were.
ForeignConfirmInvoiceNoEffect ==
    (/\ resp.kind \in {"confirm", "invoice"}
     /\ resp.oid \in DOMAIN resp.pre.orders
     /\ resp.pre.orders[resp.oid].cafe # resp.cafe)
    => (/\ resp.result = "NotFound"
        /\ dbOrders = resp.pre.orders
        /\ dbInv = resp.pre.inv
        /\ invoices = resp.pre.docs)

\* the other cafe tried to confirm a pending order that had the stock
ForeignConfirmOfPending ==
    /\ resp.kind = "confirm" /\ resp.result = "NotFound"
    /\ resp.oid \in DOMAIN dbOrders
    /\ dbOrders[resp.oid].cafe # resp.cafe
    /\ dbOrders[resp.oid].status = "pending"
    /\ ~Short(dbInv, ItemsOf(resp.oid))

\* C9: createOrder with no items answers EmptyOrder; with an unknown product id
\* it answers UnknownProduct listing exactly the requested ids that do not
\* exist; in both cases the orders and the order items stay as they were.
CreateRefusals ==
    [][resp'.kind = "create" =>
          LET its == resp'.arg
              unknown == ProductIdsOf(its) \ DOMAIN dbPrice
          IN  /\ its = <<>>
                 => (resp'.result = "EmptyOrder" /\ dbOrders' = dbOrders /\ dbItems' = dbItems)
              /\ (its # <<>> /\ unknown # {})
                 => (/\ resp'.result = "UnknownProduct"
                     /\ {resp'.missing[k] : k \in 1..Len(resp'.missing)} = unknown
                     /\ Len(resp'.missing) = Cardinality(unknown)
                     /\ dbOrders' = dbOrders /\ dbItems' = dbItems)]_vars

\* a payload naming one product that exists and one that does not was refused
RefusedMixedPayload ==
    /\ resp.kind = "create" /\ resp.result = "UnknownProduct"
    /\ Len(resp.arg) = 2
    /\ ProductIdsOf(resp.arg) \cap Products # {}
    /\ Len(resp.missing) = 1

\* lines as stored against the payload asked
SameLines(rows, its) ==
    /\ Len(rows) = Len(its)
    /\ \A k \in 1..Len(its) : rows[k].product = its[k].product /\ rows[k].qty = its[k].qty

\* C10: an order is visible to the other requests with all its line items or
\* not at all, and getOrder never returns it with none or some of its items.
OrderVisibleWithAllItems ==
    /\ \A o \in DOMAIN dbOrders :
          o \in DOMAIN wanted /\ o \in DOMAIN dbItems /\ SameLines(dbItems[o], wanted[o])
    /\ (resp.kind = "get" /\ resp.result = "ok")
       => SameLines(resp.data[1].items, wanted[resp.oid])

\* a reader found the order absent while its writer had flushed the order row
ReadDuringCreate ==
    /\ resp.kind = "get" /\ resp.result = "NotFound"
    /\ \E r \in Reqs : req[r].kind = "create" /\ req[r].pc = "commit" /\ req[r].oid = resp.oid

\* C11: the price of every order item is the price its product had when the
\* order was created, and no later step changes it, whatever becomes of
\* Product.price and whatever is done with the order
PriceSnapshotKept ==
    /\ [](resp.kind = "create" /\ resp.result = "ok" =>
             \A k \in 1..Len(dbItems[resp.oid]) :
                 dbItems[resp.oid][k].price = resp.pre.price[dbItems[resp.oid][k].product])
    /\ [][\A o \in DOMAIN dbItems : o \in DOMAIN dbItems' /\ dbItems'[o] = dbItems[o]]_vars

\* a confirmed and invoiced order of two units whose product was repriced since
RepricedAfterOrder ==
    \E o \in DOMAIN dbItems :
        /\ Confirmed(o) /\ o \in DOMAIN invoices
        /\ dbItems[o][1].qty = 2
        /\ dbItems[o][1].price = SeedPrice[dbItems[o][1].product]
        /\ dbPrice[dbItems[o][1].product] # dbItems[o][1].price

\* C12: a confirmation whose invoice fails to render still answers ok, with
\* the order confirmed and the stock of its items taken
RenderFailureKeepsConfirm ==
    resp.kind = "confirm" /\ resp.gen = "failed" =>
        /\ resp.result = "ok"
        /\ resp.oid \in DOMAIN resp.pre.orders
        /\ resp.pre.orders[resp.oid].status = "pending"
        /\ Confirmed(resp.oid)
        /\ \A p \in DOMAIN dbInv :
               dbInv[p] = resp.pre.inv[p] - SumQty(resp.pre.items[resp.oid], p)

\* a confirmation that took stock and whose invoice failed to render
ConfirmedWithoutInvoice ==
    /\ resp.kind = "confirm" /\ resp.gen = "failed"
    /\ dbInv # resp.pre.inv
    /\ resp.oid \notin DOMAIN invoices

\* C13: the first invoice request of the owner after a confirmation whose
\* invoice failed to render runs the generation
RetryOnNextFetch ==
    [][\A r \in Reqs :
          req[r].kind = "invoice" /\ req[r].pc = "fetch" /\ req'[r].pc = "idle"
          /\ req[r].oid \in renderFailed
          => resp'.gen # "none"]_vars

\* C15: a confirmation generates the invoice only from its last step, after
\* its commit, holding no lock; one that is refused generates none
GenerationAfterCommit ==
    /\ [](\A r \in Reqs : req[r].kind = "confirm" /\ req[r].pc = "invoice" =>
              req[r].locks = {} /\ req[r].sess = <<>> /\ Confirmed(req[r].oid))
    /\ [](resp.kind = "confirm" /\ resp.result # "ok" => resp.gen = "none")
    /\ [][\A r \in Reqs :
             req[r].kind = "confirm" /\ req'[r] # req[r]
             /\ (invoices' # invoices \/ resp'.gen # "none")
             => req[r].pc = "invoice"]_vars

\* a confirmation about to generate its invoice while another request holds
\* row locks
GeneratingBesideLocks ==
    \E r, q \in Reqs :
        /\ req[r].kind = "confirm" /\ req[r].pc = "invoice"
        /\ req[q].locks # {}

\* C14: the inventory table changes only at the commit of a confirmation;
\* no step of any other request, and no other step of a confirmation,
\* changes it
InventoryOnlyByConfirm ==
    [][dbInv' # dbInv =>
          \E r \in Reqs : /\ req[r].kind = "confirm" /\ req[r].pc = "commit"
                          /\ req'[r].kind = "confirm" /\ req'[r].pc = "invoice"
                          /\ dbOrders[req[r].oid].status = "pending"
                          /\ dbOrders'[req[r].oid].status = "confirmed"]_vars

\* a pending order beside a confirmed one, the stock of the pending one
\* still there, after a look at the catalog
PendingReservesNothing ==
    /\ resp.kind = "products"
    /\ \E o \in DOMAIN dbOrders : dbOrders[o].status = "pending"
    /\ \E o \in DOMAIN dbOrders : dbOrders[o].status = "confirmed"
    /\ \E p \in DOMAIN dbInv : dbInv[p] = inv0[p] - ConfirmedQty(OrderIds, p) /\ dbInv[p] < inv0[p]

\* C16: a token from a successful login of user u authenticates as u before
\* its twelve hours are over while u exists, is refused as expired after
\* them, and is refused with UserNotFound before them once u is gone
TokenLifetime ==
    \A t \in issued :
        resp.kind = "me" /\ resp.token = <<t.token>> =>
            /\ clock < t.iat + AccessTokenExpireMinutes /\ t.token.sub \in users =>
                   /\ resp.result = "ok"
                   /\ resp.data = <<[id |-> t.token.sub,
                                     cafe_id |-> CafeUsers[t.token.sub].cafe_id,
                                     login |-> CafeUsers[t.token.sub].login,
                                     is_admin |-> CafeUsers[t.token.sub].is_admin]>>
            /\ clock > t.iat + AccessTokenExpireMinutes => resp.result = "TokenExpired"
            /\ clock < t.iat + AccessTokenExpireMinutes /\ t.token.sub \notin users =>
                   resp.result = "UserNotFound"

\* a token refused as expired a minute after its twelve hours
ExpiredJustAfter ==
    \E t \in issued :
        /\ resp.kind = "me" /\ resp.token = <<t.token>>
        /\ clock = t.iat + AccessTokenExpireMinutes + 1
        /\ resp.result = "TokenExpired"

\* C17: GET /orders/my answers with the orders of the caller's cafe that fall
\* on the page, newest id first, each with the total of its items
ListOrdersPage ==
    resp.kind = "list" =>
        LET mine == {o \in DOMAIN resp.pre.orders : resp.pre.orders[o].cafe = resp.cafe}
            rank(o) == Cardinality({x \in mine : x > o})
            offset == (resp.arg[1] - 1) * resp.arg[2]
            onPage == {o \in mine : rank(o) >= offset /\ rank(o) < offset + resp.arg[2]}
        IN  /\ resp.result = "ok"
            /\ Len(resp.data) = Cardinality(onPage)
            /\ \A k \in 1..Len(resp.data) :
                   /\ resp.data[k].id \in onPage
                   /\ rank(resp.data[k].id) = offset + k - 1
                   /\ resp.data[k].total = Total(resp.pre.items[resp.data[k].id])

\* C18: GET /products lists every product once, with the qty of its
\* inventory row, or 0 when it has none
CatalogStock ==
    resp.kind = "products" =>
        /\ {resp.data[k].id : k \in 1..Len(resp.data)} = DOMAIN dbPrice
        /\ Len(resp.data) = Cardinality(DOMAIN dbPrice)
        /\ \A k \in 1..Len(resp.data) :
               resp.data[k].stock = IF resp.data[k].id \in DOMAIN dbInv
                                    THEN dbInv[resp.data[k].id] ELSE 0

\* the catalog listed with a product that has no inventory row and one whose
\* stock a confirmation has taken from
CatalogAfterConfirm ==
    /\ resp.kind = "products"
    /\ \E k \in 1..Len(resp.data) : resp.data[k].id \notin DOMAIN dbInv /\ resp.data[k].stock = 0
    /\ \E k \in 1..Len(resp.data) :
           /\ resp.data[k].id \in DOMAIN dbInv
           /\ resp.data[k].stock < inv0[resp.data[k].id]

RECURSIVE FirstShort(_, _)
\* the product of the first line of its, taken in order from the stock inv,
\* that finds no row or too little left; 0 when every line is served
FirstShort(inv, its) ==
    IF its = <<>> THEN 0
    ELSE IF Head(its).product \notin DOMAIN inv \/ inv[Head(its).product] < Head(its).qty
    THEN Head(its).product
    ELSE FirstShort([inv EXCEPT ![Head(its).product] = @ - Head(its).qty], Tail(its))

\* C19: confirm answers NotFound for an order that is not the caller's,
\* whatever its status and stock; InvalidState for an owned order that is not
\* pending, whatever the stock; InsufficientStock only for an owned pending
\* order, naming the first line that lacks stock
ConfirmGuardOrder ==
    resp.kind = "confirm" =>
        LET o == resp.oid
            owned == o \in DOMAIN resp.pre.orders /\ resp.pre.orders[o].cafe = resp.cafe
        IN  /\ ~owned => resp.result = "NotFound"
            /\ owned /\ resp.pre.orders[o].status # "pending" => resp.result = "InvalidState"
            /\ resp.result = "InsufficientStock" =>
                   /\ owned /\ resp.pre.orders[o].status = "pending"
                   /\ resp.bad # 0
                   /\ resp.bad = FirstShort(resp.pre.inv, resp.pre.items[o])

\* a confirmed order whose items exceed the stock left, refused as InvalidState
NonPendingShortRefused ==
    /\ resp.kind = "confirm" /\ resp.result = "InvalidState"
    /\ resp.pre.orders[resp.oid].status = "confirmed"
    /\ FirstShort(resp.pre.inv, resp.pre.items[resp.oid]) # 0

\* C20: for every product, what the inventory lost since the start is what
\* the confirmed orders hold of it
StockConservation ==
    \A p \in DOMAIN dbInv : inv0[p] - dbInv[p] = ConfirmedQty(OrderIds, p)

\* C21: the status drawn in every stored invoice is the committed status of
\* its order; a confirmed order has no stored invoice that says pending
StoredInvoiceStatusCurrent ==
    \A o \in DOMAIN invoices :
        o \in DOMAIN dbOrders /\ invoices[o].status = dbOrders[o].status
====
